---------------------------- MODULE Spec2Model ----------------------------
(***************************************************************************)
(* Model of scripts/update_dashboard_from_excel.py: the extractor          *)
(* (read_excel_data and its helpers) and the renderer (update_html and     *)
(* its helpers), as run by main.                                           *)
(*                                                                         *)
(* Text is modelled as a sequence of one-character strings wherever the    *)
(* code looks at characters (names, numeric cells, formatted numbers).     *)
(* A Python float is modelled as an exact decimal fraction num/den, or as  *)
(* one of the special values nan / inf that float() also produces.         *)
(***************************************************************************)
EXTENDS Integers, Sequences, FiniteSets, TLC

VARIABLES
    pc,          \* position of the modelled run
    value,       \* format_indian_number: the argument
    formatted,   \* format_indian_number: the returned text
    cell,        \* to_int / to_percent: the argument (a spreadsheet cell)
    coerced,     \* to_int / to_percent: the outcome
    header_row,  \* map_columns: the argument
    idx,         \* map_columns: index of the header cell the loop is at
    col,         \* map_columns: the dict being filled (-1: key not in it)
    missing,     \* map_columns: the required keys found missing
    sheet,       \* the spreadsheet, as its author means it
    ws_rows,     \* the rows of the worksheet, as load_workbook returns them
    data,        \* what read_excel_data returned, or the error it raised
    disk,        \* the content of the HTML file
    disk0,       \* the content of the HTML file when the current run began
    html,        \* update_html: the text in memory
    writes,      \* calls of write_text in the current run
    ak,          \* update_html: number of the array constant replaced next
    run,         \* number of the current run of main on this file
    last,        \* how the run before the current one ended ("none" for the first)
    arg_text,    \* replace_between: the argument text
    arg_start,   \* replace_between: the argument start_marker
    arg_end,     \* replace_between: the argument end_marker
    arg_repl,    \* replace_between: the argument replacement
    result       \* replace_between: what it returned, or the error it raised

fmtVars == <<value, formatted>>
coerceVars == <<cell, coerced>>
mapVars == <<header_row, idx, col, missing>>
readVars == <<sheet, ws_rows, data>>
htmlVars == <<disk, disk0, html, writes, ak, run, last>>
betweenVars == <<arg_text, arg_start, arg_end, arg_repl, result>>

vars == <<pc, value, formatted, cell, coerced, header_row, idx, col, missing,
          sheet, ws_rows, data, disk, disk0, html, writes, ak, run,
          last, arg_text, arg_start, arg_end, arg_repl, result>>

----------------------------------------------------------------------------
(* Bounds of the model *)

\* Largest power of ten around which format_indian_number is exercised.
MaxExp == 6
\* Longest text of a numeric cell.
MaxCellLen == 3
\* Number of cells of the usual header row that are replaced by another cell.
MaxHeaderEdits == 1
\* Most data rows of a spreadsheet.
MaxRows == 3
\* Runs of main on the same spreadsheet and HTML file, one after the other.
MaxRuns == 2
\* Longest text given to replace_between on its own.
MaxTextLen == 4
\* Longest marker given to replace_between on its own.
MaxMarkerLen == 2

----------------------------------------------------------------------------
(* Generic helpers for Python sequences and arithmetic *)

\* F applied to the value of e, which is worked out once.
Bind(e, F(_)) == CHOOSE r \in {F(x) : x \in {e}} : TRUE

RECURSIVE Pow10(_)
Pow10(e) == IF e = 0 THEN 1 ELSE 10 * Pow10(e - 1)

Abs(n) == IF n < 0 THEN -n ELSE n

\* Python's round() on the exact fraction num/den (den > 0): to the nearest
\* integer, ties to the even one.
RoundHalfEven(num, den) ==
    LET q == num \div den
        r == num % den
    IN  IF 2 * r < den THEN q
        ELSE IF 2 * r > den THEN q + 1
        ELSE IF q % 2 = 0 THEN q ELSE q + 1

RECURSIVE Reverse(_)
Reverse(s) == IF s = <<>> THEN <<>> ELSE Reverse(Tail(s)) \o <<Head(s)>>

\* sep.join(parts) for sequences of character sequences
RECURSIVE Join(_, _)
Join(parts, sep) ==
    IF parts = <<>> THEN <<>>
    ELSE IF Len(parts) = 1 THEN parts[1]
    ELSE parts[1] \o sep \o Join(Tail(parts), sep)

\* s.replace(c, "") for a single character c
RECURSIVE RemoveChar(_, _)
RemoveChar(s, c) ==
    IF s = <<>> THEN <<>>
    ELSE IF Head(s) = c THEN RemoveChar(Tail(s), c)
    ELSE <<Head(s)>> \o RemoveChar(Tail(s), c)

RECURSIVE LStrip(_)
LStrip(s) == IF s # <<>> /\ Head(s) = " " THEN LStrip(Tail(s)) ELSE s

\* s.strip()
Strip(s) == Reverse(LStrip(Reverse(LStrip(s))))

DigitChars == <<"0", "1", "2", "3", "4", "5", "6", "7", "8", "9">>

IsDigit(c) == \E d \in 1..10 : DigitChars[d] = c

DigitVal(c) == (CHOOSE d \in 1..10 : DigitChars[d] = c) - 1

\* str(n) for n >= 0
RECURSIVE StrOfNat(_)
StrOfNat(n) ==
    IF n < 10 THEN <<DigitChars[n + 1]>>
    ELSE StrOfNat(n \div 10) \o <<DigitChars[(n % 10) + 1]>>

\* int(s) for a sequence of digit characters ("" counts 0)
RECURSIVE NatOfDigits(_)
NatOfDigits(s) ==
    IF s = <<>> THEN 0
    ELSE 10 * NatOfDigits(SubSeq(s, 1, Len(s) - 1)) + DigitVal(s[Len(s)])

AllDigits(s) == \A i \in 1..Len(s) : IsDigit(s[i])

----------------------------------------------------------------------------
(* parse_number / to_int / to_percent *)

\* Characters of the numeric cell texts that are explored.
CellAlphabet == {"0", "1", "7", ",", "-", " ", ".", "n", "a", "i", "f"}

RECURSIVE TextsOfLen(_)
TextsOfLen(n) ==
    IF n = 0 THEN {<<>>}
    ELSE {Append(t, c) : t \in TextsOfLen(n - 1), c \in CellAlphabet}

CellTexts == UNION {TextsOfLen(n) : n \in 0..MaxCellLen}

\* A spreadsheet cell: empty (None), a number, or text.
NoneCell == [k |-> "none"]
NumCell(n, d) == [k |-> "num", num |-> n, den |-> d]
TextCell(s) == [k |-> "text", s |-> s]

Fin(n, d) == [k |-> "fin", num |-> n, den |-> d]
NaN == [k |-> "nan"]
Inf == [k |-> "inf"]
FloatError == [k |-> "ValueError"]

\* Python's float(text): surrounding whitespace is ignored, then an optional
\* sign followed by "inf", "nan" or a decimal numeral with at least one digit.
\* (Exponents and underscores need characters outside CellAlphabet.)
PyFloat(text) ==
    Bind(Strip(text), LAMBDA t :
    Bind(IF t # <<>> /\ t[1] \in {"-", "+"} THEN Tail(t) ELSE t, LAMBDA body :
    Bind({i \in 1..Len(body) : body[i] = "."}, LAMBDA dots :
    Bind(IF dots = {} THEN Len(body) + 1 ELSE CHOOSE i \in dots : TRUE, LAMBDA dot :
    Bind(SubSeq(body, 1, dot - 1), LAMBDA ip :
    Bind(SubSeq(body, dot + 1, Len(body)), LAMBDA fp :
        IF body = <<"n", "a", "n">> THEN NaN
        ELSE IF body = <<"i", "n", "f">> THEN Inf
        ELSE IF /\ Cardinality(dots) <= 1
                /\ AllDigits(ip) /\ AllDigits(fp)
                /\ Len(ip) + Len(fp) >= 1
             THEN Bind(NatOfDigits(ip) * Pow10(Len(fp)) + NatOfDigits(fp), LAMBDA mag :
                     Fin(IF t[1] = "-" THEN -mag ELSE mag, Pow10(Len(fp))))
        ELSE FloatError))))))

parse_number(c) ==
    IF c.k = "none" THEN Fin(0, 1)
    ELSE IF c.k = "num" THEN Fin(c.num, c.den)
    ELSE Bind(RemoveChar(Strip(c.s), ","), LAMBDA text :
            IF text = <<>> \/ text = <<"-">> THEN Fin(0, 1)
            ELSE Bind(PyFloat(text), LAMBDA f :
                    IF f = FloatError THEN Fin(0, 1) ELSE f))

\* int(round(x)): round() of nan raises ValueError, of inf OverflowError.
to_int(c) ==
    Bind(parse_number(c), LAMBDA x :
        IF x.k = "nan" THEN [ok |-> FALSE, err |-> "ValueError"]
        ELSE IF x.k = "inf" THEN [ok |-> FALSE, err |-> "OverflowError"]
        ELSE [ok |-> TRUE, v |-> RoundHalfEven(x.num, x.den)])

\* round(x, 2), kept in hundredths; round(nan, 2) is nan and round(inf, 2) inf.
to_percent(c) ==
    Bind(parse_number(c), LAMBDA x :
        IF x.k = "fin"
        THEN [k |-> "fin", v |-> RoundHalfEven(x.num * 100, x.den)]
        ELSE [k |-> x.k, v |-> 0])

----------------------------------------------------------------------------
(* format_indian_number *)

\* Grouping as done west of the Indus: every group has three digits.
RECURSIVE GroupHead_threes(_, _)
GroupHead_threes(head, parts) ==
    IF Len(head) > 3
    THEN GroupHead_threes(SubSeq(head, 1, Len(head) - 3),
                          Append(parts, SubSeq(head, Len(head) - 2, Len(head))))
    ELSE IF head # <<>> THEN Append(parts, head) ELSE parts

RECURSIVE GroupHead(_, _)
\* the while loop of format_indian_number and the `if head` after it
GroupHead(head, parts) ==
    IF Len(head) > 2
    THEN GroupHead(SubSeq(head, 1, Len(head) - 2),
                   Append(parts, SubSeq(head, Len(head) - 1, Len(head))))
    ELSE IF head # <<>> THEN Append(parts, head) ELSE parts

format_indian_number(v) ==
    Bind(v, LAMBDA n :
    Bind(StrOfNat(Abs(n)), LAMBDA s :
        IF Len(s) <= 3 THEN (IF n < 0 THEN <<"-">> ELSE <<>>) \o s
        ELSE (IF n < 0 THEN <<"-">> ELSE <<>>)
             \o Join(Reverse(GroupHead(SubSeq(s, 1, Len(s) - 3), <<>>)), <<",">>)
             \o <<",">> \o SubSeq(s, Len(s) - 2, Len(s))))

----------------------------------------------------------------------------
(* detect_header_row / map_columns *)

(* A header cell is modelled by what the code reads of its normalized text:
   whether it is empty, and which of the keyword phrases tested with `in` it
   contains.  A text that contains "surveyed plots on" or "total surveyed
   plots" contains "surveyed", and one that contains "approved by supervisor"
   contains "approved". *)
Keywords ==
    {"sub district", "tehsil", "name", "targeted plots", "uploaded village",
     "uploaded plots", "required target plots", "surveyed plots on",
     "total surveyed plots", "percentage", "surveyed", "approved",
     "approved by supervisor", "total private surveyors",
     "surveyors in fields on"}

KwClosure(S) ==
    S \cup (IF S \cap {"surveyed plots on", "total surveyed plots"} # {}
            THEN {"surveyed"} ELSE {})
      \cup (IF "approved by supervisor" \in S THEN {"approved"} ELSE {})

NoDate == [day |-> 0, month |-> 0, year |-> 0]

\* A text cell of a heading: the phrases it contains and the date that
\* parse_date_tokens finds in it (NoDate: none).
HeadCell(S, d) == [k |-> "head", kw |-> KwClosure(S), date |-> d]
HCell(S) == HeadCell(S, NoDate)
DateCell(d) == [k |-> "date", d |-> d]

\* normalize_text(cell), as far as the code looks at it: whether it is the
\* empty string, and the keyword phrases in it.  The names and numbers of the
\* data rows contain none of the phrases.
normalize_text(c) ==
    CASE c.k = "none" -> [empty |-> TRUE, kw |-> {}]
      [] c.k = "head" -> [empty |-> FALSE, kw |-> c.kw]
      [] c.k = "text" -> [empty |-> Strip(c.s) = <<>>, kw |-> {}]
      [] OTHER -> [empty |-> FALSE, kw |-> {}]

Keys ==
    {"name", "targeted_plots", "uploaded_villages", "uploaded_plots",
     "daily_target", "surveyed_today", "total_surveyed", "survey_percent",
     "approved", "approval_percent", "total_surveyors", "in_field"}

required ==
    <<"name", "uploaded_villages", "uploaded_plots", "daily_target",
      "surveyed_today", "total_surveyed", "survey_percent", "approved",
      "approval_percent", "total_surveyors", "in_field">>

NoKey == "-"

\* The rules with the one for the approval percentage tried before the one
\* for "approved by supervisor".
column_key_reordered(h) ==
    IF ("sub district" \in h \/ "tehsil" \in h) /\ "name" \in h THEN "name"
    ELSE IF "targeted plots" \in h THEN "targeted_plots"
    ELSE IF "uploaded village" \in h THEN "uploaded_villages"
    ELSE IF "uploaded plots" \in h THEN "uploaded_plots"
    ELSE IF "required target plots" \in h THEN "daily_target"
    ELSE IF "surveyed plots on" \in h THEN "surveyed_today"
    ELSE IF "total surveyed plots" \in h THEN "total_surveyed"
    ELSE IF "percentage" \in h /\ "surveyed" \in h /\ "approved" \notin h
         THEN "survey_percent"
    ELSE IF "percentage" \in h /\ "approved" \in h THEN "approval_percent"
    ELSE IF "approved by supervisor" \in h THEN "approved"
    ELSE IF "total private surveyors" \in h THEN "total_surveyors"
    ELSE IF "surveyors in fields on" \in h THEN "in_field"
    ELSE NoKey

\* The if / elif chain of map_columns: the key a header text is assigned to.
column_key(h) ==
    IF ("sub district" \in h \/ "tehsil" \in h) /\ "name" \in h THEN "name"
    ELSE IF "targeted plots" \in h THEN "targeted_plots"
    ELSE IF "uploaded village" \in h THEN "uploaded_villages"
    ELSE IF "uploaded plots" \in h THEN "uploaded_plots"
    ELSE IF "required target plots" \in h THEN "daily_target"
    ELSE IF "surveyed plots on" \in h THEN "surveyed_today"
    ELSE IF "total surveyed plots" \in h THEN "total_surveyed"
    ELSE IF "percentage" \in h /\ "surveyed" \in h /\ "approved" \notin h
         THEN "survey_percent"
    ELSE IF "approved by supervisor" \in h THEN "approved"
    ELSE IF "percentage" \in h /\ "approved" \in h THEN "approval_percent"
    ELSE IF "total private surveyors" \in h THEN "total_surveyors"
    ELSE IF "surveyors in fields on" \in h THEN "in_field"
    ELSE NoKey

\* One iteration of the loop of map_columns, on cell c at index i (from 0).
map_cell(c, i, d) ==
    LET h == normalize_text(c)
    IN  IF h.empty THEN d
        ELSE LET k == column_key(h.kw)
             IN  IF k = NoKey THEN d ELSE [d EXCEPT ![k] = i]

EmptyCol == [k \in Keys |-> -1]

RECURSIVE map_loop(_, _, _)
map_loop(hdr, i, d) ==
    IF i >= Len(hdr) THEN d ELSE map_loop(hdr, i + 1, map_cell(hdr[i + 1], i, d))

\* missing = [k for k in required if k not in col]
missing_keys(d) == SelectSeq(required, LAMBDA k : d[k] = -1)

map_columns(hdr) ==
    Bind(map_loop(hdr, 0, EmptyCol), LAMBDA d :
    Bind(missing_keys(d), LAMBDA m :
        IF m # <<>> THEN [ok |-> FALSE, err |-> "Missing expected columns", missing |-> m]
        ELSE [ok |-> TRUE, col |-> d]))

----------------------------------------------------------------------------
(* normalize_name / display_name *)

\* The printable ASCII characters in code order, from " " (32) to "~" (126);
\* the double quote, the backslash and the backquote are spelled out.
AsciiChars ==
    <<" ", "!", "dquote", "#", "$", "%", "&", "'", "(", ")", "*", "+", ",",
      "-", ".", "/", "0", "1", "2", "3", "4", "5", "6", "7", "8", "9", ":",
      ";", "<", "=", ">", "?", "@", "A", "B", "C", "D", "E", "F", "G", "H",
      "I", "J", "K", "L", "M", "N", "O", "P", "Q", "R", "S", "T", "U", "V",
      "W", "X", "Y", "Z", "[", "backslash", "]", "^", "_", "backquote", "a", "b", "c",
      "d", "e", "f", "g", "h", "i", "j", "k", "l", "m", "n", "o", "p", "q",
      "r", "s", "t", "u", "v", "w", "x", "y", "z", "{", "|", "}", "~">>

CodeOf ==
    [c \in {AsciiChars[i] : i \in 1..Len(AsciiChars)} |->
        (CHOOSE i \in 1..Len(AsciiChars) : AsciiChars[i] = c) + 31]

\* ord(c)
CharCode(c) == CodeOf[c]

\* c.lower()
Lower(c) ==
    IF CharCode(c) >= 65 /\ CharCode(c) <= 90 THEN AsciiChars[CharCode(c) + 1] ELSE c

IsLowerAlnum(c) ==
    \/ (CharCode(c) >= 97 /\ CharCode(c) <= 122)
    \/ (CharCode(c) >= 48 /\ CharCode(c) <= 57)

CANONICAL_ORDER ==
    <<<<"R", "a", "i", "k", "o", "t">>,
      <<"K", "h", "a", "n", "n", "a">>,
      <<"L", "u", "d", "h", "i", "a", "n", "a", " ", "(", "E", "a", "s", "t", ")">>,
      <<"P", "a", "y", "a", "l">>,
      <<"J", "a", "g", "r", "a", "o", "n">>,
      <<"S", "a", "m", "r", "a", "l", "a">>,
      <<"L", "u", "d", "h", "i", "a", "n", "a", " ", "(", "W", "e", "s", "t", ")">>>>

DISPLAY_NAME_MAP ==
    {<<<<"r", "a", "i", "k", "o", "t">>,
       <<"R", "a", "i", "k", "o", "t">>>>,
     <<<<"k", "h", "a", "n", "n", "a">>,
       <<"K", "h", "a", "n", "n", "a">>>>,
     <<<<"p", "a", "y", "a", "l">>,
       <<"P", "a", "y", "a", "l">>>>,
     <<<<"j", "a", "g", "r", "a", "o", "n">>,
       <<"J", "a", "g", "r", "a", "o", "n">>>>,
     <<<<"s", "a", "m", "r", "a", "l", "a">>,
       <<"S", "a", "m", "r", "a", "l", "a">>>>,
     <<<<"l", "u", "d", "h", "i", "a", "n", "a", "e", "a", "s", "t">>,
       <<"L", "u", "d", "h", "i", "a", "n", "a", " ", "(", "E", "a", "s", "t", ")">>>>,
     <<<<"l", "u", "d", "h", "i", "a", "n", "a", "w", "e", "s", "t">>,
       <<"L", "u", "d", "h", "i", "a", "n", "a", " ", "(", "W", "e", "s", "t", ")">>>>}

\* re.sub(r"[^a-z0-9]", "", value.lower())
RECURSIVE normalize_name(_)
normalize_name(v) ==
    IF v = <<>> THEN <<>>
    ELSE LET c == Lower(Head(v))
         IN  (IF IsLowerAlnum(c) THEN <<c>> ELSE <<>>) \o normalize_name(Tail(v))

display_name(raw_name) ==
    Bind(normalize_name(raw_name), LAMBDA key :
    Bind({e \in DISPLAY_NAME_MAP : e[1] = key}, LAMBDA hit :
        IF hit # {} THEN (CHOOSE e \in hit : TRUE)[2] ELSE Strip(raw_name)))

\* a < b for Python strings: by code point, a proper prefix first
RECURSIVE StrLess(_, _)
StrLess(a, b) ==
    IF b = <<>> THEN FALSE
    ELSE IF a = <<>> THEN TRUE
    ELSE IF Head(a) = Head(b) THEN StrLess(Tail(a), Tail(b))
    ELSE CharCode(Head(a)) < CharCode(Head(b))

----------------------------------------------------------------------------
(* extract_report_date *)

\* The date a cell yields in extract_report_date: a date-typed cell is the
\* date itself; any other cell is searched by parse_date_tokens(str(cell)).
cell_date(c) ==
    IF c.k = "date" THEN c.d
    ELSE IF c.k = "head" THEN c.date
    ELSE NoDate

\* the cells of rows[:5], row by row
RECURSIVE FirstCells(_, _)
FirstCells(rows, n) ==
    IF n = 0 \/ rows = <<>> THEN <<>> ELSE Head(rows) \o FirstCells(Tail(rows), n - 1)

extract_report_date(rows, hdr, col_map) ==
    Bind(FirstCells(rows, 5), LAMBDA cells :
    Bind({i \in 1..Len(cells) : cell_date(cells[i]) # NoDate}, LAMBDA dated :
    Bind(cell_date(hdr[col_map["surveyed_today"] + 1]), LAMBDA candidate :
        IF dated # {}
        THEN [ok |-> TRUE, date |-> cell_date(cells[CHOOSE i \in dated : \A j \in dated : i <= j])]
        ELSE IF candidate # NoDate THEN [ok |-> TRUE, date |-> candidate]
        ELSE [ok |-> FALSE, err |-> "Could not determine report date"])))

----------------------------------------------------------------------------
(* detect_header_row *)

\* The test detect_header_row makes of one row, on its non-empty cells joined.
is_header_row(row) ==
    Bind(UNION {normalize_text(row[i]).kw : i \in 1..Len(row)}, LAMBDA joined :
        /\ ("sub district" \in joined \/ "tehsil" \in joined)
        /\ "uploaded village" \in joined
        /\ "uploaded plots" \in joined
        /\ "surveyed" \in joined
        /\ "approved" \in joined)

\* The index (from 0) of the first row that qualifies, -1 for the ValueError.
detect_header_row(rows) ==
    Bind({i \in 1..Len(rows) : is_header_row(rows[i])}, LAMBDA hits :
        IF hits = {} THEN -1 ELSE (CHOOSE i \in hits : \A j \in hits : i <= j) - 1)

----------------------------------------------------------------------------
(* read_excel_data *)

IntFields ==
    <<"uploaded_villages", "uploaded_plots", "daily_target", "surveyed_today",
      "total_surveyed", "approved", "total_surveyors", "in_field">>

\* str(name_cell), for the cells a name column holds
CellStr(c) == IF c.k = "text" THEN c.s ELSE <<>>

\* `name_cell is None or str(name_cell).strip() == ""`
name_is_blank(c) == c.k = "none" \/ Strip(CellStr(c)) = <<>>

\* The coercions of one data row, each [ok, v] or the error raised.
row_ints(row, c) == [f \in {IntFields[i] : i \in 1..Len(IntFields)} |-> to_int(row[c[f] + 1])]

row_error(row, c) ==
    Bind(row_ints(row, c), LAMBDA n :
    Bind({i \in 1..Len(IntFields) : ~n[IntFields[i]].ok}, LAMBDA bad :
        IF bad = {} THEN "" ELSE n[IntFields[CHOOSE i \in bad : TRUE]].err))

\* row_data of one data row
row_data(row, c) ==
    Bind(row_ints(row, c), LAMBDA n :
        [name |-> display_name(Strip(CellStr(row[c["name"] + 1]))),
         uploaded_villages |-> n["uploaded_villages"].v,
         uploaded_plots |-> n["uploaded_plots"].v,
         daily_target |-> n["daily_target"].v,
         surveyed_today |-> n["surveyed_today"].v,
         total_surveyed |-> n["total_surveyed"].v,
         survey_percent |-> to_percent(row[c["survey_percent"] + 1]),
         approved |-> n["approved"].v,
         approval_percent |-> to_percent(row[c["approval_percent"] + 1]),
         total_surveyors |-> n["total_surveyors"].v,
         in_field |-> n["in_field"].v])

TotalKey == <<"t", "o", "t", "a", "l">>
TotalName == <<"T", "o", "t", "a", "l">>

row_key(row, c) == normalize_name(Strip(CellStr(row[c["name"] + 1])))

\* The comparison made with the display name instead of the normalized key.
is_total_display(key) == key = TotalName

\* line 282: `if key == "total"`
is_total(key) == key = TotalKey

\* The data rows that are not skipped: those with a name.
named_rows(rows, c) == SelectSeq(rows, LAMBDA r : ~name_is_blank(r[c["name"] + 1]))

InCanonical(name) == \E i \in 1..Len(CANONICAL_ORDER) : CANONICAL_ORDER[i] = name

\* by_name[name]: the last row of that name
by_name(subs, name) ==
    subs[CHOOSE i \in 1..Len(subs) :
            /\ subs[i].name = name
            /\ \A j \in 1..Len(subs) : subs[j].name = name => j <= i]

\* [by_name[name] for name in CANONICAL_ORDER if name in by_name]
RECURSIVE ordered_from(_, _)
ordered_from(subs, i) ==
    IF i > Len(CANONICAL_ORDER) THEN <<>>
    ELSE (IF \E j \in 1..Len(subs) : subs[j].name = CANONICAL_ORDER[i]
          THEN <<by_name(subs, CANONICAL_ORDER[i])>> ELSE <<>>)
         \o ordered_from(subs, i + 1)

\* list.sort(key=name): stable, ascending
RECURSIVE insert_sorted(_, _)
insert_sorted(r, sorted) ==
    Bind(sorted, LAMBDA xs :
        IF xs = <<>> THEN <<r>>
        ELSE IF StrLess(r.name, Head(xs).name) THEN <<r>> \o xs
        ELSE <<Head(xs)>> \o insert_sorted(r, Tail(xs)))

RECURSIVE sort_by_name(_)
sort_by_name(xs) ==
    IF xs = <<>> THEN <<>>
    ELSE insert_sorted(xs[Len(xs)], sort_by_name(SubSeq(xs, 1, Len(xs) - 1)))

\* The ordering without `extras.sort(...)`.
order_subdivisions_unsorted(subs) ==
    ordered_from(subs, 1) \o SelectSeq(subs, LAMBDA r : ~InCanonical(r.name))

\* lines 290-294: the canonical ordering of the subdivision rows
order_subdivisions(subs) ==
    ordered_from(subs, 1) \o sort_by_name(SelectSeq(subs, LAMBDA r : ~InCanonical(r.name)))

RECURSIVE sum_field(_, _)
sum_field(rs, f) == IF rs = <<>> THEN 0 ELSE Head(rs)[f] + sum_field(Tail(rs), f)

\* round(a / b, 2): the ratio, not the percentage
percent_of_ratio(a, b) ==
    IF b # 0 THEN [k |-> "fin", v |-> RoundHalfEven(a * 100, b)] ELSE [k |-> "fin", v |-> 0]

\* round(a / b * 100, 2) in hundredths, 0.0 when b is 0 (falsy)
percent_of(a, b) ==
    IF b # 0 THEN [k |-> "fin", v |-> RoundHalfEven(a * 10000, b)] ELSE [k |-> "fin", v |-> 0]

\* lines 296-309: the totals when the sheet has no Total row
computed_totals(subs) ==
    Bind([f \in {IntFields[i] : i \in 1..Len(IntFields)} |-> sum_field(subs, f)], LAMBDA sum :
        [name |-> TotalName,
         uploaded_villages |-> sum["uploaded_villages"],
         uploaded_plots |-> sum["uploaded_plots"],
         daily_target |-> sum["daily_target"],
         surveyed_today |-> sum["surveyed_today"],
         total_surveyed |-> sum["total_surveyed"],
         survey_percent |-> percent_of(sum["total_surveyed"], sum["uploaded_plots"]),
         approved |-> sum["approved"],
         approval_percent |-> percent_of(sum["approved"], sum["total_surveyed"]),
         total_surveyors |-> sum["total_surveyors"],
         in_field |-> sum["in_field"]])

Failed(e) == [ok |-> FALSE, err |-> e]

\* lines 258-315, given the header index, the column map and the date
extract_records(rows, header_idx, c, report_date) ==
    Bind(named_rows(SubSeq(rows, header_idx + 2, Len(rows)), c), LAMBDA named :
    Bind({i \in 1..Len(named) : row_error(named[i], c) # ""}, LAMBDA bad :
    Bind(SelectSeq(named, LAMBDA r : is_total(row_key(r, c))), LAMBDA total_rows :
    Bind(SelectSeq(named, LAMBDA r : ~is_total(row_key(r, c))), LAMBDA sub_rows :
        IF bad # {}
        THEN Failed(row_error(named[CHOOSE i \in bad : \A j \in bad : i <= j], c))
        ELSE IF sub_rows = <<>> THEN Failed("No subdivision rows found")
        ELSE Bind(order_subdivisions([i \in 1..Len(sub_rows) |-> row_data(sub_rows[i], c)]),
                  LAMBDA ordered :
                [ok |-> TRUE,
                 report_date |-> report_date,
                 subdivisions |-> ordered,
                 totals |-> IF total_rows # <<>>
                            THEN row_data(total_rows[Len(total_rows)], c)
                            ELSE computed_totals(ordered)])))))

read_excel_data(rows) ==
    Bind(detect_header_row(rows), LAMBDA header_idx :
        IF header_idx = -1 THEN Failed("Could not detect header row")
        ELSE Bind(map_columns(rows[header_idx + 1]), LAMBDA c :
                IF ~c.ok THEN Failed(c.err)
                ELSE Bind(extract_report_date(rows, rows[header_idx + 1], c.col),
                          LAMBDA report_date :
                        IF ~report_date.ok THEN Failed(report_date.err)
                        ELSE extract_records(rows, header_idx, c.col, report_date.date))))

----------------------------------------------------------------------------
(* ordinal and the three renderings of the report date *)

ordinal(n) ==
    StrOfNat(n) \o
        (IF 10 <= n % 100 /\ n % 100 <= 20 THEN <<"t", "h">>
         ELSE CASE n % 10 = 1 -> <<"s", "t">>
                [] n % 10 = 2 -> <<"n", "d">>
                [] n % 10 = 3 -> <<"r", "d">>
                [] OTHER -> <<"t", "h">>)

\* strftime('%B'); strftime('%b') is its first three letters
MonthNames ==
    <<<<"J", "a", "n", "u", "a", "r", "y">>,
      <<"F", "e", "b", "r", "u", "a", "r", "y">>,
      <<"M", "a", "r", "c", "h">>,
      <<"A", "p", "r", "i", "l">>,
      <<"M", "a", "y">>,
      <<"J", "u", "n", "e">>,
      <<"J", "u", "l", "y">>,
      <<"A", "u", "g", "u", "s", "t">>,
      <<"S", "e", "p", "t", "e", "m", "b", "e", "r">>,
      <<"O", "c", "t", "o", "b", "e", "r">>,
      <<"N", "o", "v", "e", "m", "b", "e", "r">>,
      <<"D", "e", "c", "e", "m", "b", "e", "r">>>>

format_as_of_date(d) ==
    ordinal(d.day) \o <<" ">> \o MonthNames[d.month] \o <<" ">> \o StrOfNat(d.year)

format_surveyed_header_date(d) ==
    LET y == StrOfNat(d.year)
    IN  StrOfNat(d.day) \o <<"-">> \o StrOfNat(d.month) \o <<"-">>
            \o SubSeq(y, IF Len(y) > 2 THEN Len(y) - 1 ELSE 1, Len(y))

format_daily_chart_label(d) ==
    ordinal(d.day) \o <<" ">> \o SubSeq(MonthNames[d.month], 1, 3)

----------------------------------------------------------------------------
(* the threshold classes; a percentage is held in hundredths, and every
   comparison with nan is false *)

AtLeast(percent, n) == percent.k = "inf" \/ (percent.k = "fin" /\ percent.v >= n * 100)

survey_bar_class(percent) ==
    IF AtLeast(percent, 10) THEN "high" ELSE IF AtLeast(percent, 7) THEN "medium" ELSE "low"

approval_bar_class(percent) ==
    IF AtLeast(percent, 15) THEN "high" ELSE IF AtLeast(percent, 10) THEN "medium" ELSE "low"

survey_badge_class(percent) ==
    IF AtLeast(percent, 10) THEN "success"
    ELSE IF AtLeast(percent, 7) THEN "warning" ELSE "danger"

approval_badge_class(percent) ==
    IF AtLeast(percent, 20) THEN "success"
    ELSE IF AtLeast(percent, 10) THEN "warning" ELSE "danger"

----------------------------------------------------------------------------
(* The HTML document *)

(* The document is a sequence of tokens: each anchor text that update_html
   searches for is one token, the text generated for a region is one token
   that carries the values rendered into it, and any other text is a filler
   token.  The anchors are distinct literal texts that do not overlap.

     asof   <p>Ludhiana District | Data as of V</p>         (V without "<")
     SS     `    <div class="stats-grid">`
     SE     the blank line and `    <h2 style="margin: 30px 0 20px 0; ...">`
     CS     `    <div class="subdivision-grid">`
     CE     the blank line and `    <!-- Charts: survey, approval, ... -->`
     th     <th>Surveyed (V)</th>                            (V without ")")
     TB     `            <tbody>`
     TE     `            </tbody>`
     AO     `const NAME = [`
     AC     `];`
     label  label: 'Plots Surveyed (V)'                      (V without "'")
*)
Old == <<"o", "l", "d">>

AsOfLine(v) == [t |-> "asof", v |-> v]
SS == [t |-> "SS"]
SE == [t |-> "SE"]
CS == [t |-> "CS"]
CE == [t |-> "CE"]
ThCell(v) == [t |-> "th", v |-> v]
TB == [t |-> "TB"]
TE == [t |-> "TE"]
AO(const_name) == [t |-> "AO", name |-> const_name]
AC == [t |-> "AC"]
ChartLabel(v) == [t |-> "label", v |-> v]
Filler == [t |-> "text"]
\* the content of a region as the template holds it before any update
OldBody(region) == [t |-> region, old |-> TRUE]

\* "{:.2f}" of a percentage held in hundredths
Fmt2f(percent) ==
    IF percent.k = "fin"
    THEN LET a == Abs(percent.v)
         IN  (IF percent.v < 0 THEN <<"-">> ELSE <<>>)
                \o StrOfNat(a \div 100) \o <<".">>
                \o <<DigitChars[((a % 100) \div 10) + 1], DigitChars[(a % 10) + 1]>>
    ELSE IF percent.k = "nan" THEN <<"n", "a", "n">> ELSE <<"i", "n", "f">>

\* str(n) for an int
StrOfInt(n) == IF n < 0 THEN <<"-">> \o StrOfNat(-n) ELSE StrOfNat(n)

build_stats_html(totals) ==
    <<SS,
      [t |-> "stats", old |-> FALSE,
       uploaded_plots |-> format_indian_number(totals.uploaded_plots),
       total_surveyed |-> format_indian_number(totals.total_surveyed),
       survey_percent |-> Fmt2f(totals.survey_percent),
       approved |-> format_indian_number(totals.approved),
       approval_percent |-> Fmt2f(totals.approval_percent),
       daily_target |-> format_indian_number(totals.daily_target)]>>

subdivision_card(row) ==
    [name |-> row.name,
     survey_percent |-> Fmt2f(row.survey_percent),
     survey_class |-> survey_bar_class(row.survey_percent),
     approval_percent |-> Fmt2f(row.approval_percent),
     approval_class |-> approval_bar_class(row.approval_percent),
     uploaded_plots |-> format_indian_number(row.uploaded_plots),
     total_surveyed |-> format_indian_number(row.total_surveyed),
     approved |-> format_indian_number(row.approved),
     total_surveyors |-> StrOfInt(row.total_surveyors),
     in_field |-> StrOfInt(row.in_field)]

build_subdivision_cards_html(recs) ==
    <<CS,
      [t |-> "cards", old |-> FALSE,
       cards |-> [i \in 1..Len(recs) |-> subdivision_card(recs[i])]]>>

table_row(row, name) ==
    [name |-> name,
     uploaded_villages |-> StrOfInt(row.uploaded_villages),
     uploaded_plots |-> format_indian_number(row.uploaded_plots),
     daily_target |-> format_indian_number(row.daily_target),
     surveyed_today |-> format_indian_number(row.surveyed_today),
     total_surveyed |-> format_indian_number(row.total_surveyed),
     survey_badge |-> survey_badge_class(row.survey_percent),
     survey_percent |-> Fmt2f(row.survey_percent),
     approved |-> format_indian_number(row.approved),
     approval_badge |-> approval_badge_class(row.approval_percent),
     approval_percent |-> Fmt2f(row.approval_percent),
     total_surveyors |-> StrOfInt(row.total_surveyors),
     in_field |-> StrOfInt(row.in_field)]

build_table_body_html(recs, totals) ==
    <<TB,
      [t |-> "tbody", old |-> FALSE,
       trs |-> [i \in 1..Len(recs) |-> table_row(recs[i], recs[i].name)],
       total |-> table_row(totals, TotalName)],
      TE>>

\* Whether a token's text contains the character "]".
HasBracket(chars) == \E i \in 1..Len(chars) : chars[i] = "]"

ContainsRB(tok) ==
    CASE tok.t = "AC" -> TRUE
      [] tok.t = "cards" /\ ~tok.old ->
            \E i \in 1..Len(tok.cards) : HasBracket(tok.cards[i].name)
      [] tok.t = "tbody" /\ ~tok.old ->
            \E i \in 1..Len(tok.trs) : HasBracket(tok.trs[i].name)
      [] tok.t = "array" /\ ~tok.old ->
            \E i \in 1..Len(tok.items) : HasBracket(tok.items[i])
      [] OTHER -> FALSE

----------------------------------------------------------------------------
(* replace_between / replace_array_const / the substitutions of update_html *)

\* text.find(marker, start): the least index >= start (from 1) at which the
\* sequence marker occurs in text, 0 when there is none (Python's -1).  A
\* marker of the HTML document is the one-token sequence of its anchor.
find(text, marker, start) ==
    LET at == {i \in start..(Len(text) - Len(marker) + 1) :
                  SubSeq(text, i, i + Len(marker) - 1) = marker}
    IN  IF at = {} THEN 0 ELSE CHOOSE i \in at : \A j \in at : i <= j

\* text[:a] + replacement + text[b:], for the elements a..b-1 being replaced
Splice(text, a, b, replacement) ==
    SubSeq(text, 1, a - 1) \o replacement \o SubSeq(text, b, Len(text))

Raised(e, text) == [ok |-> FALSE, err |-> e, text |-> text]
Returned(text) == [ok |-> TRUE, err |-> "", text |-> text]

\* The replacement made strictly between the markers: the start marker is
\* kept and the end marker is looked for behind it.
replace_between_after_start(text, start_marker, end_marker, replacement) ==
    IF find(text, start_marker, 1) = 0 THEN Raised("Start marker not found", text)
    ELSE IF find(text, end_marker, find(text, start_marker, 1) + Len(start_marker)) = 0
    THEN Raised("End marker not found after start marker", text)
    ELSE Returned(Splice(text, find(text, start_marker, 1) + Len(start_marker),
                         find(text, end_marker,
                              find(text, start_marker, 1) + Len(start_marker)),
                         replacement))

replace_between(text, start_marker, end_marker, replacement) ==
    LET start_idx == find(text, start_marker, 1)
        end_idx == find(text, end_marker, start_idx)
    IN  IF start_idx = 0 THEN Raised("Start marker not found", text)
        ELSE IF end_idx = 0 THEN Raised("End marker not found after start marker", text)
        ELSE Returned(Splice(text, start_idx, end_idx, replacement))

\* The table body replaced without `tbody_end += len(...)`: the old closing
\* tag stays behind the new one.
replace_tbody_keep_close(html_text, tbody_html) ==
    IF find(html_text, <<TB>>, 1) = 0 \/ find(html_text, <<TE>>, find(html_text, <<TB>>, 1)) = 0
    THEN Raised("Could not find <tbody> in table.", html_text)
    ELSE Returned(Splice(html_text, find(html_text, <<TB>>, 1),
                         find(html_text, <<TE>>, find(html_text, <<TB>>, 1)), tbody_html))

\* lines 496-503: the table body, both tags included
replace_tbody(html_text, tbody_html) ==
    LET tbody_start == find(html_text, <<TB>>, 1)
        tbody_end == find(html_text, <<TE>>, tbody_start)
    IN  IF tbody_start = 0 THEN Raised("Could not find <tbody> in table.", html_text)
        ELSE IF tbody_end = 0 THEN Raised("Could not find </tbody> in table.", html_text)
        ELSE Returned(Splice(html_text, tbody_start, tbody_end + Len(<<TE>>), tbody_html))

\* re.sub(pattern, repl, text, count=1) for the three one-line patterns: the
\* first token of that kind is replaced; with no match the text is returned
\* as it is.
re_sub_first(text, kind, repl) ==
    LET at == {i \in 1..Len(text) : text[i].t = kind}
    IN  IF at = {} THEN text
        ELSE LET i == CHOOSE x \in at : \A y \in at : x <= y
             IN  Splice(text, i, i + 1, <<repl>>)

\* Where `const NAME = \[[^\]]*];` matches starting at token i: the index of
\* the `];` that ends the match, 0 when the text at i does not match.
array_match_end(text, const_name, i) ==
    LET stops == {j \in (i + 1)..Len(text) : ContainsRB(text[j])}
        j == IF stops = {} THEN 0 ELSE CHOOSE x \in stops : \A y \in stops : x <= y
    IN  IF text[i] = AO(const_name) /\ j # 0 /\ text[j] = AC THEN j ELSE 0

\* pattern.search(text): the leftmost index where the pattern matches, or 0
array_search(text, const_name) ==
    LET at == {i \in 1..Len(text) : array_match_end(text, const_name, i) # 0}
    IN  IF at = {} THEN 0 ELSE CHOOSE x \in at : \A y \in at : x <= y

replace_array_const(text, const_name, values_js) ==
    LET i == array_search(text, const_name)
    IN  IF i = 0 THEN Raised("JS array constant not found", text)
        ELSE Returned(Splice(text, i, array_match_end(text, const_name, i) + 1,
                             <<AO(const_name),
                               [t |-> "array", old |-> FALSE, items |-> values_js],
                               AC>>))

\* The six array constants, in the order update_html replaces them.
ArrayConsts ==
    <<"subdivisions", "surveyPercentages", "approvalPercentages",
      "totalSurveyors", "inField", "dailyProgress">>

\* lines 505-510: the items of the array literal of constant number n
array_items(recs, n) ==
    [i \in 1..Len(recs) |->
        CASE n = 1 -> <<"'">> \o recs[i].name \o <<"'">>
          [] n = 2 -> Fmt2f(recs[i].survey_percent)
          [] n = 3 -> Fmt2f(recs[i].approval_percent)
          [] n = 4 -> StrOfInt(recs[i].total_surveyors)
          [] n = 5 -> StrOfInt(recs[i].in_field)
          [] n = 6 -> StrOfInt(recs[i].surveyed_today)]

\* The statements of update_html in order; after the last, main returns.
Statements ==
    <<"read", "as_of", "stats", "cards", "th", "tbody", "array", "label", "write">>

\* The statements with the write placed before the array constants.
next_statement_write_early(label) ==
    CASE label = "tbody" -> "write"
      [] label = "write" -> "array"
      [] label = "label" -> "done"
      [] label = "array" -> "label"
      [] OTHER -> Statements[(CHOOSE i \in 1..Len(Statements) : Statements[i] = label) + 1]

next_statement(label) ==
    IF label = "write" THEN "done"
    ELSE Statements[(CHOOSE i \in 1..Len(Statements) : Statements[i] = label) + 1]

----------------------------------------------------------------------------
(* Values the variables of a part of the program hold while another part is
   the one being run *)

IdleFmt == value = 0 /\ formatted = <<>>

IdleCoerce == cell = NoneCell /\ coerced = [int |-> [ok |-> TRUE, v |-> 0],
                                            pct |-> [k |-> "fin", v |-> 0]]

IdleMap == header_row = <<>> /\ idx = 0 /\ col = EmptyCol /\ missing = <<>>

NotRun == [ok |-> FALSE, err |-> "not run"]

IdleRead == sheet = <<>> /\ ws_rows = <<>> /\ data = NotRun

IdleHtml ==
    /\ disk = <<>> /\ disk0 = <<>> /\ html = <<>> /\ writes = 0 /\ ak = 1
    /\ run = 1 /\ last = "none"

IdleBetween ==
    /\ arg_text = <<>> /\ arg_start = <<>> /\ arg_end = <<>> /\ arg_repl = <<>>
    /\ result = NotRun

----------------------------------------------------------------------------
(* format_indian_number applied to integers around the powers of ten *)

FmtInputs ==
    LET mags == {m * Pow10(e) + r : m \in 0..12, e \in 0..MaxExp, r \in {-1, 0, 1}}
                    \cup {999, 1000, 100000, 1234567}
    IN  {n \in mags : n >= 0} \cup {-n : n \in {m \in mags : m >= 0}}

InitFmt ==
    /\ pc = "start"
    /\ value \in FmtInputs
    /\ formatted = <<>>
    /\ IdleCoerce /\ IdleMap /\ IdleRead /\ IdleHtml /\ IdleBetween

Format ==
    /\ pc = "start"
    /\ formatted' = format_indian_number(value)
    /\ pc' = "formatted"
    /\ UNCHANGED <<value, coerceVars, mapVars, readVars, htmlVars,
                 betweenVars>>

NextFmt == Format

SpecFmt == InitFmt /\ [][NextFmt]_vars

\* The digits of the formatted text, sign removed.
FmtBody == IF value < 0 THEN Tail(formatted) ELSE formatted

\* Position j counted from the right end (1 = last character) is where a
\* separator belongs: after the last three digits, then after every two.
SeparatorPlace(j) == j >= 4 /\ (j - 4) % 3 = 0

\* C10: format_indian_number groups the digits of |n| South-Asian style: a
\* separator stands exactly after the last three digits and then after every
\* two digits going left, never in front of the leftmost digit; numbers of at
\* most three digits have no separator; removing the separators gives the
\* decimal digits of |n|; a negative input has a single leading "-"; and the
\* five examples of the specification come out as written.
C10_IndianGrouping ==
    pc = "formatted" =>
        /\ (value < 0) = (formatted # <<>> /\ formatted[1] = "-")
        /\ \A i \in 1..Len(FmtBody) : FmtBody[i] # "-"
        /\ RemoveChar(FmtBody, ",") = StrOfNat(Abs(value))
        /\ \A i \in 1..Len(FmtBody) :
              (FmtBody[i] = ",") <=> SeparatorPlace(Len(FmtBody) - i + 1)
        /\ FmtBody[1] # ","
        /\ (Abs(value) <= 999 => \A i \in 1..Len(FmtBody) : FmtBody[i] # ",")
        /\ (value = 0 => formatted = <<"0">>)
        /\ (value = 999 => formatted = <<"9", "9", "9">>)
        /\ (value = 1000 => formatted = <<"1", ",", "0", "0", "0">>)
        /\ (value = 100000 => formatted = <<"1", ",", "0", "0", ",", "0", "0", "0">>)
        /\ (value = 1234567 =>
               formatted = <<"1", "2", ",", "3", "4", ",", "5", "6", "7">>)

\* A negative number of seven digits has been formatted.
C10_Witness == pc = "formatted" /\ value = -1234567 /\ Len(formatted) = 10

----------------------------------------------------------------------------
(* to_int and to_percent applied to one cell *)

Cells ==
    {NoneCell} \cup {NumCell(n, 1) : n \in 0..2} \cup {NumCell(5, 2)}
        \cup {TextCell(s) : s \in CellTexts}

InitCoerce ==
    /\ pc = "start"
    /\ cell \in Cells
    /\ coerced = [int |-> [ok |-> TRUE, v |-> 0],
                  pct |-> [k |-> "fin", v |-> 0]]
    /\ IdleFmt /\ IdleMap /\ IdleRead /\ IdleHtml /\ IdleBetween

Coerce ==
    /\ pc = "start"
    /\ coerced' = [int |-> to_int(cell), pct |-> to_percent(cell)]
    /\ pc' = "coerced"
    /\ UNCHANGED <<cell, fmtVars, mapVars, readVars, htmlVars,
                 betweenVars>>

NextCoerce == Coerce

SpecCoerce == InitCoerce /\ [][NextCoerce]_vars

\* Text that reads as a decimal numeral once surrounding blanks and the
\* thousands separators are taken away: an optional sign, digits, at most one
\* decimal point, at least one digit.
NumeralText(s) ==
    LET t == Strip(RemoveChar(Strip(s), ","))
        body == IF t # <<>> /\ t[1] \in {"-", "+"} THEN Tail(t) ELSE t
    IN  /\ \E i \in 1..Len(body) : IsDigit(body[i])
        /\ \A i \in 1..Len(body) : IsDigit(body[i]) \/ body[i] = "."
        /\ Cardinality({i \in 1..Len(body) : body[i] = "."}) <= 1

\* A cell the tolerant parser is to read as zero: null, blank, "-", or text
\* that is no numeral.
ZeroLikeCell(c) == c.k = "none" \/ (c.k = "text" /\ ~NumeralText(c.s))

\* C9: a blank, null, "-" or non-numeric cell coerces to 0 with to_int and to
\* 0.0 with to_percent, and coercion never raises; text with thousands
\* separators coerces as the same text without the commas does.
C9_TolerantCoercion ==
    pc = "coerced" =>
        /\ coerced.int.ok
        /\ (ZeroLikeCell(cell) =>
              /\ coerced.int = [ok |-> TRUE, v |-> 0]
              /\ coerced.pct = [k |-> "fin", v |-> 0])
        /\ (cell.k = "text" /\ NumeralText(cell.s) =>
              /\ coerced.int = to_int(TextCell(RemoveChar(Strip(cell.s), ",")))
              /\ coerced.pct = to_percent(TextCell(RemoveChar(Strip(cell.s), ","))))

----------------------------------------------------------------------------
(* map_columns applied to variations of the usual header row, one loop
   iteration at a time *)

UsualHeader ==
    <<HCell({}),                                    \* "Sr. No."
      HCell({"sub district", "name"}),
      HCell({"targeted plots"}),
      HCell({"uploaded village"}),
      HCell({"uploaded plots"}),
      HCell({"required target plots"}),
      HCell({"surveyed plots on"}),
      HCell({"total surveyed plots"}),
      HCell({"percentage", "surveyed"}),
      HCell({"approved by supervisor"}),
      HCell({"percentage", "approved", "surveyed"}),
      HCell({"total private surveyors"}),
      HCell({"surveyors in fields on"})>>

\* Cells a header cell is replaced by: empty, every single phrase, and texts
\* that several rules match.
HeaderCellKinds ==
    {NoneCell} \cup {HCell({k}) : k \in Keywords}
        \cup {HCell({"tehsil", "name", "targeted plots"}),
              HCell({"uploaded village", "uploaded plots"}),
              HCell({"percentage", "total surveyed plots"}),
              HCell({"percentage", "approved by supervisor"}),
              HCell({"percentage", "surveyed"}),
              HCell({"percentage", "approved"}),
              HCell({"total private surveyors", "surveyors in fields on"})}

RECURSIVE EditedHeaders(_)
EditedHeaders(n) ==
    IF n = 0 THEN {UsualHeader}
    ELSE LET prev == EditedHeaders(n - 1)
         IN  prev \cup {[h EXCEPT ![i] = c] :
                           h \in prev, i \in 1..Len(UsualHeader), c \in HeaderCellKinds}

InitMap ==
    /\ pc = "map"
    /\ header_row \in EditedHeaders(MaxHeaderEdits)
    /\ idx = 0
    /\ col = EmptyCol
    /\ missing = <<>>
    /\ IdleFmt /\ IdleCoerce /\ IdleRead /\ IdleHtml /\ IdleBetween

MapCell ==
    /\ pc = "map"
    /\ idx < Len(header_row)
    /\ col' = map_cell(header_row[idx + 1], idx, col)
    /\ idx' = idx + 1
    /\ UNCHANGED <<pc, header_row, missing, fmtVars, coerceVars, readVars, htmlVars,
                 betweenVars>>

MapFinish ==
    /\ pc = "map"
    /\ idx = Len(header_row)
    /\ missing' = missing_keys(col)
    /\ pc' = IF missing_keys(col) # <<>> THEN "ValueError" ELSE "mapped"
    /\ UNCHANGED <<header_row, idx, col, fmtVars, coerceVars, readVars, htmlVars,
                 betweenVars>>

NextMap == MapCell \/ MapFinish

SpecMap == InitMap /\ [][NextMap]_vars

\* The ordered rules of the specification: rule r assigns RuleKey[r] to a
\* header text h when RuleMatches(r, h).
RuleKey ==
    <<"name", "targeted_plots", "uploaded_villages", "uploaded_plots",
      "daily_target", "surveyed_today", "total_surveyed", "survey_percent",
      "approved", "approval_percent", "total_surveyors", "in_field">>

RuleMatches(r, h) ==
    CASE r = 1 -> ("sub district" \in h \/ "tehsil" \in h) /\ "name" \in h
      [] r = 2 -> "targeted plots" \in h
      [] r = 3 -> "uploaded village" \in h
      [] r = 4 -> "uploaded plots" \in h
      [] r = 5 -> "required target plots" \in h
      [] r = 6 -> "surveyed plots on" \in h
      [] r = 7 -> "total surveyed plots" \in h
      [] r = 8 -> "percentage" \in h /\ "surveyed" \in h /\ "approved" \notin h
      [] r = 9 -> "approved by supervisor" \in h
      [] r = 10 -> "percentage" \in h /\ "approved" \in h
      [] r = 11 -> "total private surveyors" \in h
      [] r = 12 -> "surveyors in fields on" \in h

\* What one loop iteration does to col: at most one key changes, it is the
\* key of the first matching rule and it now holds the cell's index; an empty
\* cell, or one no rule matches, changes nothing.
FirstMatchStep ==
    (pc = "map" /\ idx' = idx + 1) =>
        LET c == header_row[idx + 1]
            changed == {k \in Keys : col'[k] # col[k] \/ col'[k] = idx}
            matching == {r \in 1..12 : RuleMatches(r, c.kw)}
        IN  /\ Cardinality(changed) <= 1
            /\ (c.k = "none" \/ matching = {}) => changed = {}
            /\ (c.k # "none" /\ matching # {}) =>
                  \E r \in matching :
                     /\ \A q \in matching : r <= q
                     /\ changed = {RuleKey[r]}
                     /\ col'[RuleKey[r]] = idx
            /\ \A k \in Keys \ changed : col'[k] = col[k]

RequiredKeys == {required[i] : i \in 1..Len(required)}

\* How map_columns ends: with the error naming the missing keys exactly when
\* a required key has no column, else with every required key on an index of
\* the header row.
MapOutcome ==
    /\ pc = "ValueError" =>
          /\ \E k \in RequiredKeys : col[k] = -1
          /\ {missing[i] : i \in 1..Len(missing)} = {k \in RequiredKeys : col[k] = -1}
    /\ pc = "mapped" =>
          \A k \in RequiredKeys : col[k] >= 0 /\ col[k] < Len(header_row)
    /\ (pc = "map" /\ idx = Len(header_row)) =>
          (ENABLED MapFinish)

\* C8: map_columns assigns each non-empty header cell to at most one key, the
\* key of the first rule in the fixed order that matches its normalized text;
\* it raises the error naming the missing keys if and only if a required key
\* has no column, and otherwise every required key maps to a valid index of
\* the header row.
C8_FirstMatchAndRequired == [][FirstMatchStep]_vars /\ []MapOutcome

\* map_columns returned after a cell that two rules match (the percentage
\* rule and the total-surveyed rule) went to the earlier rule's key.
C8_Witness ==
    /\ pc = "mapped"
    /\ \E i \in 1..Len(header_row) :
          /\ header_row[i] = HCell({"percentage", "total surveyed plots"})
          /\ col["total_surveyed"] = i - 1

----------------------------------------------------------------------------
(* read_excel_data applied to spreadsheets *)

(* A spreadsheet is described by the order of its columns, where its date
   stands, and its data records (a name cell and one cell per field);
   SheetRows lays it out as the rectangular rows that load_workbook returns:
   an optional title row, the header row, the data rows. *)

UsualColumns ==
    <<"sno", "name", "targeted_plots", "uploaded_villages", "uploaded_plots",
      "daily_target", "surveyed_today", "total_surveyed", "survey_percent",
      "approved", "approval_percent", "total_surveyors", "in_field">>

\* the same columns with the counts of surveyors in front and no serial number
MovedColumns ==
    <<"in_field", "total_surveyors", "name", "uploaded_plots", "uploaded_villages",
      "targeted_plots", "daily_target", "total_surveyed", "surveyed_today",
      "approval_percent", "survey_percent", "approved">>

\* a sheet that lacks the column of the surveyors in the field
ShortColumns == SubSeq(UsualColumns, 1, 12)

Date1 == [day |-> 1, month |-> 1, year |-> 2024]
Date2 == [day |-> 22, month |-> 3, year |-> 2025]

\* The heading of a column, as the usual sheet words it; hd is the date in
\* the heading "surveyed plots on <date>".
Heading(column, hd) ==
    CASE column = "sno" -> HCell({})
      [] column = "name" -> HCell({"sub district", "name"})
      [] column = "targeted_plots" -> HCell({"targeted plots"})
      [] column = "uploaded_villages" -> HCell({"uploaded village"})
      [] column = "uploaded_plots" -> HCell({"uploaded plots"})
      [] column = "daily_target" -> HCell({"required target plots"})
      [] column = "surveyed_today" -> HeadCell({"surveyed plots on"}, hd)
      [] column = "total_surveyed" -> HCell({"total surveyed plots"})
      [] column = "survey_percent" -> HCell({"percentage", "surveyed"})
      [] column = "approved" -> HCell({"approved by supervisor"})
      [] column = "approval_percent" -> HCell({"percentage", "approved", "surveyed"})
      [] column = "total_surveyors" -> HCell({"total private surveyors"})
      [] column = "in_field" -> HCell({"surveyors in fields on"})

\* The cells of a data record under two ways of filling a sheet in: numbers
\* throughout, or text with separators, dashes and blanks.
NumbersProfile ==
           [sno |-> NumCell(1, 1), targeted_plots |-> NumCell(9, 1),
            uploaded_villages |-> NumCell(2, 1), uploaded_plots |-> NumCell(7, 1),
            daily_target |-> NumCell(3, 1), surveyed_today |-> NumCell(1, 1),
            total_surveyed |-> NumCell(4, 1), survey_percent |-> NumCell(5714, 100),
            approved |-> NumCell(1, 1), approval_percent |-> NumCell(25, 1),
            total_surveyors |-> NumCell(5, 1), in_field |-> NumCell(6, 1)]

TextProfile ==
           [sno |-> NoneCell, targeted_plots |-> NoneCell,
            uploaded_villages |-> TextCell(<<"1", ",", "0", "0", "0">>),
            uploaded_plots |-> TextCell(<<"-">>),
            daily_target |-> NoneCell,
            surveyed_today |-> TextCell(<<" ", "7", " ">>),
            total_surveyed |-> NoneCell,
            survey_percent |-> TextCell(<<"1", ".", "5">>),
            approved |-> TextCell(<<"-">>), approval_percent |-> NoneCell,
            total_surveyors |-> NumCell(5, 2),
            in_field |-> TextCell(<<"1", ",", "1">>)]

\* 1: numbers; 2: text; 3: numbers but for one cell that reads "nan"
Profile(p) ==
    CASE p = 1 -> NumbersProfile
      [] p = 2 -> TextProfile
      [] p = 3 -> [NumbersProfile EXCEPT !.uploaded_villages = TextCell(<<"n", "a", "n">>)]

NameCells ==
    {NoneCell,
     TextCell(<<"R", "a", "i", "k", "o", "t">>),
     TextCell(<<" ", "R", "A", "I", "K", "O", "T", " ">>),
     TextCell(<<"L", "u", "d", "h", "i", "a", "n", "a", " ", "E", "a", "s", "t">>),
     TextCell(<<"Z", "e", "t", "a">>),
     TextCell(<<"A", "l", "p", "h", "a">>),
     TextCell(<<"T", "o", "t", "a", "l">>)}

Records(profiles) == [name : NameCells, p : profiles]

RECURSIVE RecordLists(_, _)
RecordLists(n, profiles) ==
    IF n = 0 THEN {<<>>}
    ELSE LET shorter == RecordLists(n - 1, profiles)
         IN  shorter \cup {Append(l, r) : l \in {x \in shorter : Len(x) = n - 1},
                                          r \in Records(profiles)}

\* The usual sheet with every list of records, and the other layouts with at
\* most one record (which may hold a cell reading "nan").
Sheets ==
    {[columns |-> UsualColumns, header |-> TRUE, title |-> Date1, hdate |-> Date2,
      recs |-> l] : l \in RecordLists(MaxRows, {1, 2})}
    \cup
    {[columns |-> v.columns, header |-> v.header, title |-> v.title,
      hdate |-> v.hdate, recs |-> l] :
        v \in {[columns |-> UsualColumns, header |-> TRUE, title |-> NoDate, hdate |-> Date2],
               [columns |-> UsualColumns, header |-> TRUE, title |-> NoDate, hdate |-> NoDate],
               [columns |-> UsualColumns, header |-> TRUE, title |-> Date1, hdate |-> NoDate],
               [columns |-> MovedColumns, header |-> TRUE, title |-> Date1, hdate |-> Date2],
               [columns |-> ShortColumns, header |-> TRUE, title |-> Date1, hdate |-> Date2],
               [columns |-> UsualColumns, header |-> FALSE, title |-> Date1, hdate |-> Date2]},
        l \in RecordLists(1, {1, 2, 3})}

RecordCell(r, column) == IF column = "name" THEN r.name ELSE Profile(r.p)[column]

SheetRows(sh) ==
    LET n == Len(sh.columns)
        title == [i \in 1..n |-> IF i = 1 /\ sh.title # NoDate THEN DateCell(sh.title)
                                 ELSE NoneCell]
        head == [i \in 1..n |-> Heading(sh.columns[i], sh.hdate)]
        body == [j \in 1..Len(sh.recs) |->
                    [i \in 1..n |-> RecordCell(sh.recs[j], sh.columns[i])]]
    IN  <<title>> \o (IF sh.header THEN <<head>> ELSE <<>>) \o body

InitRead ==
    /\ pc = "start"
    /\ sheet \in Sheets
    /\ ws_rows = SheetRows(sheet)
    /\ data = NotRun
    /\ IdleFmt /\ IdleCoerce /\ IdleMap /\ IdleHtml /\ IdleBetween

ReadExcelData ==
    /\ pc = "start"
    /\ data' = read_excel_data(ws_rows)
    /\ pc' = IF data'.ok THEN "extracted" ELSE "failed"
    /\ UNCHANGED <<sheet, ws_rows, fmtVars, coerceVars, mapVars, htmlVars,
                 betweenVars>>

NextRead == ReadExcelData

SpecRead == InitRead /\ [][NextRead]_vars

\* The data records of the sheet that have a name, and how each reads.
NamedRecs == SelectSeq(sheet.recs, LAMBDA r : ~name_is_blank(r.name))
RecIsTotal(r) == normalize_name(Strip(CellStr(r.name))) = TotalKey
RecName(r) == display_name(Strip(CellStr(r.name)))
RecInt(r, f) == to_int(Profile(r.p)[f]).v
SubRecs == SelectSeq(NamedRecs, LAMBDA r : ~RecIsTotal(r))
TotalRecs == SelectSeq(NamedRecs, RecIsTotal)

RECURSIVE SumSeq(_)
SumSeq(ns) == IF ns = <<>> THEN 0 ELSE Head(ns) + SumSeq(Tail(ns))

IntFieldSet == {IntFields[i] : i \in 1..Len(IntFields)}

\* round(a / b * 100, 2) in hundredths, as the specification words it
SpecPercent(a, b) ==
    IF b = 0 THEN 0
    ELSE LET q == (a * 10000) \div b
             twice == 2 * ((a * 10000) % b)
         IN  IF twice < b \/ (twice = b /\ q % 2 = 0) THEN q ELSE q + 1

TotalsPercentsRecomputed ==
    /\ data.totals.survey_percent =
          [k |-> "fin", v |-> SpecPercent(data.totals.total_surveyed,
                                          data.totals.uploaded_plots)]
    /\ data.totals.approval_percent =
          [k |-> "fin", v |-> SpecPercent(data.totals.approved,
                                          data.totals.total_surveyed)]

\* C4 as claimed: without a Total row, each integer field of the totals is
\* the sum of that field over every named non-total row of the input, and the
\* two percentages are recomputed from the sums (0.0 on a zero divisor).
C4_TotalsSumAllInputRows ==
    (pc = "extracted" /\ TotalRecs = <<>>) =>
        /\ \A f \in IntFieldSet :
              data.totals[f] =
                 SumSeq([i \in 1..Len(SubRecs) |-> RecInt(SubRecs[i], f)])
        /\ TotalsPercentsRecomputed

\* C4 as amended: without a Total row, each integer field of the totals is
\* the sum of that field over the returned subdivision records (one record
\* per known subdivision, the last row of that name), and the two percentages
\* are recomputed from the sums (0.0 on a zero divisor).
C4_TotalsSumReturnedRecords ==
    (pc = "extracted" /\ TotalRecs = <<>>) =>
        /\ \A f \in IntFieldSet :
              data.totals[f] =
                 SumSeq([i \in 1..Len(data.subdivisions) |-> data.subdivisions[i][f]])
        /\ TotalsPercentsRecomputed

\* Totals were computed for a sheet in which two rows name the same known
\* subdivision, beside another record, with plots uploaded.
C4_Witness ==
    /\ pc = "extracted" /\ TotalRecs = <<>>
    /\ Len(SubRecs) = 3 /\ Len(data.subdivisions) = 2
    /\ data.totals.uploaded_plots > 0
    /\ data.totals.survey_percent.v > 0

\* C5: no two returned records have the same name.
C5_NamesUnique ==
    pc = "extracted" =>
        \A i, j \in 1..Len(data.subdivisions) :
            i # j => data.subdivisions[i].name # data.subdivisions[j].name

KnownRank(name) ==
    IF InCanonical(name)
    THEN CHOOSE i \in 1..Len(CANONICAL_ORDER) : CANONICAL_ORDER[i] = name
    ELSE 0

\* C6: whatever the order of the input rows, the returned records list the
\* known subdivisions that are present in the fixed canonical order, then the
\* records of unrecognized names in ascending order of name; no known
\* subdivision follows an unrecognized one, and the names returned are the
\* names of the non-total input rows.
C6_CanonicalOrder ==
    pc = "extracted" =>
        LET subs == data.subdivisions
        IN  /\ \A i, j \in 1..Len(subs) :
                  i < j =>
                    LET a == subs[i].name
                        b == subs[j].name
                    IN  /\ InCanonical(b) => InCanonical(a) /\ KnownRank(a) < KnownRank(b)
                        /\ (~InCanonical(a) /\ ~InCanonical(b)) => ~StrLess(b, a)
            /\ {subs[i].name : i \in 1..Len(subs)}
                  = {RecName(SubRecs[i]) : i \in 1..Len(SubRecs)}

\* Records came back for rows given in the order unrecognized, known, known
\* with the later canonical name first.
C6_Witness ==
    /\ pc = "extracted"
    /\ Len(SubRecs) = 3 /\ Len(data.subdivisions) = 3
    /\ ~InCanonical(RecName(SubRecs[1]))
    /\ KnownRank(RecName(SubRecs[2])) > KnownRank(RecName(SubRecs[3]))
    /\ KnownRank(RecName(SubRecs[3])) > 0

\* The returned totals are the coerced cells of record r.
TotalsAreRow(r) ==
    /\ data.totals.name = RecName(r)
    /\ \A f \in IntFieldSet : data.totals[f] = RecInt(r, f)
    /\ data.totals.survey_percent = to_percent(Profile(r.p).survey_percent)
    /\ data.totals.approval_percent = to_percent(Profile(r.p).approval_percent)

\* The sheet is one that read_excel_data reads up to its data rows: it has a
\* header row with every column and a date, and no cell that fails to coerce.
ReadsDataRows ==
    /\ sheet.header /\ sheet.columns # ShortColumns
    /\ (sheet.title # NoDate \/ sheet.hdate # NoDate)
    /\ \A i \in 1..Len(NamedRecs) : NamedRecs[i].p # 3

\* C7: a row whose canonicalized name is "total" is never among the returned
\* subdivision records; when such a row exists the returned totals are that
\* row's coerced values (the last such row's), not sums; and a sheet whose
\* named rows are all Total rows, or that has no named row, fails with the
\* extraction error.
C7_TotalRow ==
    /\ pc = "extracted" =>
          /\ \A i \in 1..Len(data.subdivisions) :
                normalize_name(data.subdivisions[i].name) # TotalKey
          /\ Len(data.subdivisions) <= Len(SubRecs)
          /\ TotalRecs # <<>> => TotalsAreRow(TotalRecs[Len(TotalRecs)])
    /\ (pc \in {"extracted", "failed"} /\ ReadsDataRows /\ SubRecs = <<>>) =>
          data = Failed("No subdivision rows found")

\* Totals were taken from a Total row whose values are not the sums of the
\* two subdivision rows beside it.
C7_Witness ==
    /\ pc = "extracted"
    /\ Len(TotalRecs) = 1 /\ Len(SubRecs) = 2
    /\ data.totals.uploaded_plots # data.subdivisions[1].uploaded_plots
                                      + data.subdivisions[2].uploaded_plots

----------------------------------------------------------------------------
(* main: read_excel_data, then update_html statement by statement, run again
   on the file it wrote *)

UsualTemplate ==
    <<Filler, AsOfLine(Old),
      SS, OldBody("stats"), SE,
      CS, OldBody("cards"), CE,
      ThCell(Old),
      TB, OldBody("tbody"), TE,
      AO("subdivisions"), OldBody("array"), AC,
      AO("surveyPercentages"), OldBody("array"), AC,
      AO("approvalPercentages"), OldBody("array"), AC,
      AO("totalSurveyors"), OldBody("array"), AC,
      AO("inField"), OldBody("array"), AC,
      AO("dailyProgress"), OldBody("array"), AC,
      ChartLabel(Old)>>

Without(text, i) == SubSeq(text, 1, i - 1) \o SubSeq(text, i + 1, Len(text))
InsertAt(text, j, tok) == SubSeq(text, 1, j - 1) \o <<tok>> \o SubSeq(text, j, Len(text))

\* The usual template, and the documents that differ from it by one token
\* taken out, one token moved elsewhere, or one token repeated elsewhere.
Templates ==
    LET n == Len(UsualTemplate)
    IN  {UsualTemplate}
        \cup {Without(UsualTemplate, i) : i \in 1..n}
        \cup {InsertAt(Without(UsualTemplate, i), j, UsualTemplate[i]) :
                 i \in 1..n, j \in 1..n}
        \cup {InsertAt(UsualTemplate, j, UsualTemplate[i]) : i \in 1..n, j \in 1..(n + 1)}

UsualSheet(recs) ==
    [columns |-> UsualColumns, header |-> TRUE, title |-> Date1, hdate |-> Date2,
     recs |-> recs]

Named(n, p) == [name |-> TextCell(n), p |-> p]

\* Three subdivisions without a Total row; one subdivision with a Total row;
\* a subdivision whose name has a "]" in it; a sheet without a header row.
MainSheets ==
    {UsualSheet(<<Named(<<"K", "h", "a", "n", "n", "a">>, 1),
                  Named(<<"R", "a", "i", "k", "o", "t">>, 2),
                  Named(<<"Z", "e", "t", "a">>, 1)>>),
     UsualSheet(<<Named(<<"R", "a", "i", "k", "o", "t">>, 1),
                  Named(<<"T", "o", "t", "a", "l">>, 1)>>),
     UsualSheet(<<Named(<<"B", "l", "o", "c", "k", " ", "[", "A", "]">>, 1)>>),
     [UsualSheet(<<Named(<<"R", "a", "i", "k", "o", "t">>, 1)>>) EXCEPT !.header = FALSE]}

InitMain ==
    /\ pc = "start"
    /\ \/ sheet \in MainSheets /\ disk = UsualTemplate
       \/ sheet = UsualSheet(<<Named(<<"K", "h", "a", "n", "n", "a">>, 1),
                               Named(<<"R", "a", "i", "k", "o", "t">>, 2),
                               Named(<<"Z", "e", "t", "a">>, 1)>>)
          /\ disk \in Templates
    /\ ws_rows = SheetRows(sheet)
    /\ data = NotRun
    /\ disk0 = disk
    /\ html = <<>>
    /\ writes = 0
    /\ ak = 1
    /\ run = 1
    /\ last = "none"
    /\ IdleFmt /\ IdleCoerce /\ IdleMap /\ IdleBetween

otherVars ==
    <<fmtVars, coerceVars, mapVars, betweenVars, sheet, ws_rows, data, disk0, run, last>>

\* html = index_path.read_text()
ReadText ==
    /\ pc = "extracted"
    /\ html' = disk
    /\ pc' = next_statement("read")
    /\ UNCHANGED <<otherVars, disk, writes, ak>>

\* A statement that cannot raise sets html to text.
Assign(label, text) ==
    /\ pc = label
    /\ html' = text
    /\ pc' = next_statement(label)
    /\ UNCHANGED <<otherVars, disk, writes, ak>>

\* A statement that raises ends the run; html keeps its value.
AssignOrRaise(label, res) ==
    /\ pc = label
    /\ html' = res.text
    /\ pc' = IF res.ok THEN next_statement(label) ELSE "failed"
    /\ UNCHANGED <<otherVars, disk, writes, ak>>

SubAsOf ==
    Assign("as_of",
           re_sub_first(html, "asof", AsOfLine(format_as_of_date(data.report_date))))

ReplaceStats ==
    AssignOrRaise("stats", replace_between(html, <<SS>>, <<SE>>, build_stats_html(data.totals)))

ReplaceCards ==
    AssignOrRaise("cards",
                  replace_between(html, <<CS>>, <<CE>>,
                                  build_subdivision_cards_html(data.subdivisions)))

SubSurveyedHeader ==
    Assign("th",
           re_sub_first(html, "th", ThCell(format_surveyed_header_date(data.report_date))))

ReplaceTbody ==
    AssignOrRaise("tbody",
                  replace_tbody(html, build_table_body_html(data.subdivisions, data.totals)))

ReplaceArrayConst ==
    /\ pc = "array"
    /\ LET res == replace_array_const(html, ArrayConsts[ak],
                                      array_items(data.subdivisions, ak))
       IN  /\ html' = res.text
           /\ pc' = IF ~res.ok THEN "failed"
                    ELSE IF ak < Len(ArrayConsts) THEN "array"
                    ELSE next_statement("array")
           /\ ak' = IF res.ok /\ ak < Len(ArrayConsts) THEN ak + 1 ELSE ak
    /\ UNCHANGED <<otherVars, disk, writes>>

SubChartLabel ==
    Assign("label",
           re_sub_first(html, "label",
                        ChartLabel(format_daily_chart_label(data.report_date))))

\* index_path.write_text(html)
WriteText ==
    /\ pc = "write"
    /\ disk' = html
    /\ writes' = writes + 1
    /\ pc' = next_statement("write")
    /\ UNCHANGED <<otherVars, html, ak>>

\* The tool is started again on the same spreadsheet and the same HTML file.
RunAgain ==
    /\ pc \in {"done", "failed"}
    /\ run < MaxRuns
    /\ run' = run + 1
    /\ last' = pc
    /\ pc' = "start"
    /\ disk0' = disk
    /\ data' = NotRun
    /\ html' = <<>>
    /\ writes' = 0
    /\ ak' = 1
    /\ UNCHANGED <<fmtVars, coerceVars, mapVars, betweenVars, sheet, ws_rows, disk>>

NextMain ==
    \/ ReadExcelData
    \/ ReadText
    \/ SubAsOf
    \/ ReplaceStats
    \/ ReplaceCards
    \/ SubSurveyedHeader
    \/ ReplaceTbody
    \/ ReplaceArrayConst
    \/ SubChartLabel
    \/ WriteText
    \/ RunAgain

SpecMain == InitMain /\ [][NextMain]_vars

\* C1: in a run of main the HTML file is written at most once, and only
\* after extraction and every substitution statement succeeded on the text in
\* memory; until then, and in every run that raised, the file holds what it
\* held when the run began.
C1_WriteOnceAtEnd ==
    /\ writes <= 1
    /\ pc # "done" => writes = 0 /\ disk = disk0
    /\ pc = "done" => writes = 1 /\ disk = html /\ data.ok

\* A substitution raised after earlier ones had changed the text in memory.
C1_Witness == pc = "failed" /\ data.ok /\ html # disk /\ writes = 0

HasKind(doc, kind) == \E i \in 1..Len(doc) : doc[i].t = kind

\* The anchors of the replacements that document doc lacks.
LackingAnchors(doc) ==
    (IF HasKind(doc, "asof") THEN {} ELSE {"as-of date line"})
    \cup (IF find(doc, <<SS>>, 1) # 0 /\ find(doc, <<SE>>, find(doc, <<SS>>, 1)) # 0
          THEN {} ELSE {"stats-grid region"})
    \cup (IF find(doc, <<CS>>, 1) # 0 /\ find(doc, <<CE>>, find(doc, <<CS>>, 1)) # 0
          THEN {} ELSE {"subdivision-grid region"})
    \cup (IF HasKind(doc, "th") THEN {} ELSE {"Surveyed table header"})
    \cup (IF find(doc, <<TB>>, 1) # 0 /\ find(doc, <<TE>>, find(doc, <<TB>>, 1)) # 0
          THEN {} ELSE {"tbody region"})
    \cup {ArrayConsts[n] : n \in {m \in 1..Len(ArrayConsts) :
                                     array_search(doc, ArrayConsts[m]) = 0}}
    \cup (IF HasKind(doc, "label") THEN {} ELSE {"Plots Surveyed chart label"})

\* C2: when the input document lacks the anchor of any replacement, the run
\* does not complete and the file is not written.
C2_MissingAnchorAborts ==
    LackingAnchors(disk0) # {} => pc # "done" /\ writes = 0 /\ disk = disk0

\* What each statement of update_html writes for the data d.
AsOfNew(d) == AsOfLine(format_as_of_date(d.report_date))
ThNew(d) == ThCell(format_surveyed_header_date(d.report_date))
LabelNew(d) == ChartLabel(format_daily_chart_label(d.report_date))

FirstOfKind(doc, kind) ==
    doc[CHOOSE i \in 1..Len(doc) : doc[i].t = kind /\ \A j \in 1..(i - 1) : doc[j].t # kind]

\* The markers of doc are intact for the data d: the first match of every
\* anchor in doc is the text that update_html writes for it (the three
\* one-line anchors may also be absent, as they were for the run that wrote
\* doc).
MarkersIntact(doc, d) ==
    /\ HasKind(doc, "asof") => FirstOfKind(doc, "asof") = AsOfNew(d)
    /\ HasKind(doc, "th") => FirstOfKind(doc, "th") = ThNew(d)
    /\ HasKind(doc, "label") => FirstOfKind(doc, "label") = LabelNew(d)
    /\ LET a == find(doc, <<SS>>, 1)
       IN  /\ a # 0 /\ find(doc, <<SE>>, a) # 0
           /\ SubSeq(doc, a, find(doc, <<SE>>, a) - 1) = build_stats_html(d.totals)
    /\ LET a == find(doc, <<CS>>, 1)
       IN  /\ a # 0 /\ find(doc, <<CE>>, a) # 0
           /\ SubSeq(doc, a, find(doc, <<CE>>, a) - 1)
                = build_subdivision_cards_html(d.subdivisions)
    /\ LET a == find(doc, <<TB>>, 1)
       IN  /\ a # 0 /\ find(doc, <<TE>>, a) # 0
           /\ SubSeq(doc, a, find(doc, <<TE>>, a))
                = build_table_body_html(d.subdivisions, d.totals)
    /\ \A n \in 1..Len(ArrayConsts) :
          LET a == array_search(doc, ArrayConsts[n])
          IN  /\ a # 0
              /\ SubSeq(doc, a, array_match_end(doc, ArrayConsts[n], a))
                   = <<AO(ArrayConsts[n]),
                       [t |-> "array", old |-> FALSE,
                        items |-> array_items(d.subdivisions, n)],
                       AC>>

\* C3 as claimed: when a run of main completed, the next run with the same
\* data on the document it wrote completes too and leaves the document as it
\* was.
C3_Idempotent ==
    (run >= 2 /\ last = "done") => pc # "failed" /\ (pc = "done" => disk = disk0)

\* C3 as amended: given that the markers are intact in the once-updated
\* document (the first match of every anchor in it is the text update_html
\* writes for that anchor), a run on it with the same data succeeds and
\* leaves it as it was.
C3_IdempotentMarkersIntact ==
    (run >= 2 /\ last = "done" /\ data.ok /\ MarkersIntact(disk0, data)) =>
        /\ pc # "failed"
        /\ pc = "done" => disk = disk0

\* A second run completed on a document whose markers were intact, written
\* by a first run that changed the template.
C3_Witness ==
    /\ run = 2 /\ last = "done" /\ pc = "done" /\ data.ok
    /\ MarkersIntact(disk0, data)
    /\ disk0 \notin Templates

----------------------------------------------------------------------------
(* replace_between applied to short texts and markers *)

BetweenAlphabet == {"a", "b"}

RECURSIVE StringsUpTo(_)
\* the sequences over BetweenAlphabet of length n or less
StringsUpTo(n) ==
    IF n = 0 THEN {<<>>}
    ELSE UNION {{t, Append(t, c)} : t \in StringsUpTo(n - 1), c \in BetweenAlphabet}

\* Nothing; a text foreign to the markers; a text that begins with the start
\* marker "a", as the texts update_html passes do.
Replacements == {<<>>, <<"r">>, <<"a", "r">>}

InitBetween ==
    /\ pc = "start"
    /\ arg_text \in StringsUpTo(MaxTextLen)
    /\ arg_start \in StringsUpTo(MaxMarkerLen)
    /\ arg_end \in StringsUpTo(MaxMarkerLen)
    /\ arg_repl \in Replacements
    /\ result = NotRun
    /\ IdleFmt /\ IdleCoerce /\ IdleMap /\ IdleRead /\ IdleHtml

ReplaceBetween ==
    /\ pc = "start"
    /\ result' = replace_between(arg_text, arg_start, arg_end, arg_repl)
    /\ pc' = IF result'.ok THEN "returned" ELSE "raised"
    /\ UNCHANGED <<arg_text, arg_start, arg_end, arg_repl,
                   fmtVars, coerceVars, mapVars, readVars, htmlVars>>

NextBetween == ReplaceBetween

SpecBetween == InitBetween /\ [][NextBetween]_vars

\* marker occurs in text at index i (from 1)
Occurs(text, marker, i) ==
    /\ i >= 1 /\ i + Len(marker) - 1 <= Len(text)
    /\ SubSeq(text, i, i + Len(marker) - 1) = marker

\* The indexes from `from` on at which marker occurs in text.
OccurrencesFrom(text, marker, from) ==
    {i \in from..(Len(text) + 1) : Occurs(text, marker, i)}

Least(S) == CHOOSE i \in S : \A j \in S : i <= j

\* What replace_between is to do when the text it replaces begins at
\* distance `skip` behind the start of the first start marker: raise when the
\* start marker does not occur, or the end marker does not occur from there
\* on; else return the text before that place, the replacement, and the text
\* from the first such end marker on.
SplicedAt(skip) ==
    LET starts == OccurrencesFrom(arg_text, arg_start, 1)
    IN  IF starts = {} THEN ~result.ok
        ELSE LET from == Least(starts) + skip
                 ends == OccurrencesFrom(arg_text, arg_end, from)
             IN  IF ends = {} THEN ~result.ok
                 ELSE /\ result.ok
                      /\ result.text = SubSeq(arg_text, 1, from - 1) \o arg_repl
                                         \o SubSeq(arg_text, Least(ends), Len(arg_text))

\* C11 as claimed: replace_between replaces only the text strictly between
\* the markers: it fails if the start marker is absent or the end marker
\* does not occur after the start marker, and on success the result is the
\* text up to and including the first start marker, the replacement, and the
\* text from the end marker on (markers that are not empty).
C11_KeepsStartMarker ==
    (pc # "start" /\ arg_start # <<>> /\ arg_end # <<>>) => SplicedAt(Len(arg_start))

\* C11 as amended: replace_between replaces the text from the beginning of
\* the first start marker up to the first end marker found at or behind that
\* beginning: it fails if the start marker is absent or the end marker does
\* not occur from there on, and on success the result is the text before the
\* first start marker, the replacement, and the text from that end marker
\* on; the start marker stays only if the replacement holds it.
C11_SplicesFromStartMarker == pc # "start" => SplicedAt(0)

\* A text with something before, between and behind the markers, replaced
\* by a text that does not hold the start marker.
C11_Witness ==
    /\ pc = "returned"
    /\ arg_text = <<"b", "a", "a", "b">> /\ arg_start = <<"a">> /\ arg_end = <<"b">>
    /\ arg_repl = <<"r">>
    /\ result.text = <<"b", "r", "b">>

=============================================================================
